---- MODULE Spec2Model ----
(***************************************************************************)
(* Model of DomeProjection (src/DomeProjection/Python/dome_projection.py): *)
(* construction of the animal-view direction field, the projector mask and *)
(* the contributing-pixel table, followed by any sequence of               *)
(* warp_image_for_dome and _find_closest_projector_pixel calls.            *)
(*                                                                         *)
(* Floating point numbers are modelled as fixed-point integers: the real   *)
(* x is the integer round(x * Scale).  NaN is a reserved value that every  *)
(* arithmetic operation propagates and every comparison rejects, as IEEE   *)
(* arithmetic does.                                                        *)
(***************************************************************************)
EXTENDS Integers, Sequences, FiniteSets, TLC

(***************************************************************************)
(* Fixed-point arithmetic                                                  *)
(***************************************************************************)
Scale == 2^10
NaN == 0 - 2^30

IsNaN(x) == x = NaN
Abs(x) == IF x < 0 THEN 0 - x ELSE x

\* integer quotient rounded to the nearest integer (b # 0)
RDivPos(a, b) == (2 * a + b) \div (2 * b)
RDiv(a, b) == IF (a < 0) = (b < 0) THEN RDivPos(Abs(a), Abs(b))
                                   ELSE 0 - RDivPos(Abs(a), Abs(b))

FAdd(a, b) == IF IsNaN(a) \/ IsNaN(b) THEN NaN ELSE a + b
FSub(a, b) == IF IsNaN(a) \/ IsNaN(b) THEN NaN ELSE a - b
FNeg(a) == IF IsNaN(a) THEN NaN ELSE 0 - a
FMul(a, b) == IF IsNaN(a) \/ IsNaN(b) THEN NaN ELSE RDiv(a * b, Scale)
\* numpy division: 0/0 is NaN (x/0 with x # 0 does not occur in the
\* configurations modelled and is left undefined)
FDiv(a, b) == IF IsNaN(a) \/ IsNaN(b) THEN NaN
              ELSE IF a = 0 /\ b = 0 THEN NaN
              ELSE RDiv(a * Scale, b)
FGt(a, b) == ~IsNaN(a) /\ ~IsNaN(b) /\ a > b
FGe(a, b) == ~IsNaN(a) /\ ~IsNaN(b) /\ a >= b
FLt(a, b) == ~IsNaN(a) /\ ~IsNaN(b) /\ a < b

ISqrtStep(n, r) == IF (r + 1) * (r + 1) <= n THEN r + 1 ELSE r
RECURSIVE ISqrt(_)
ISqrt(n) == IF n < 2 THEN n ELSE ISqrtStep(n, 2 * ISqrt(n \div 4))
\* numpy sqrt: NaN for a negative argument
FSqrt(a) == IF IsNaN(a) \/ a < 0 THEN NaN ELSE ISqrt(a * Scale)

\* F(v), with the value v computed once
Bind(v, F(_)) == CHOOSE r \in {F(w) : w \in {v}} : TRUE

\* float(i) for an integer i
FInt(i) == i * Scale
Half == Scale \div 2

\* Python's builtin min([a, b]) and max([a, b]): the first element is kept
\* unless the second compares smaller (larger)
PyMin2(a, b) == IF FLt(b, a) THEN b ELSE a
PyMax2(a, b) == IF FGt(b, a) THEN b ELSE a

(***************************************************************************)
(* Vectors                                                                 *)
(***************************************************************************)
Zero3 == <<0, 0, 0>>
NaN3 == <<NaN, NaN, NaN>>
VAdd(u, v) == <<FAdd(u[1], v[1]), FAdd(u[2], v[2]), FAdd(u[3], v[3])>>
VSub(u, v) == <<FSub(u[1], v[1]), FSub(u[2], v[2]), FSub(u[3], v[3])>>
VScale(k, v) == <<FMul(k, v[1]), FMul(k, v[2]), FMul(k, v[3])>>
VDivS(v, k) == <<FDiv(v[1], k), FDiv(v[2], k), FDiv(v[3], k)>>
HasNaN(v) == IsNaN(v[1]) \/ IsNaN(v[2]) \/ IsNaN(v[3])
\* u[1]*v[1] + u[2]*v[2] + u[3]*v[3]: NaN as soon as one component is
Dot(u, v) == IF HasNaN(u) \/ HasNaN(v) THEN NaN
             ELSE RDiv(u[1] * v[1], Scale) + RDiv(u[2] * v[2], Scale)
                      + RDiv(u[3] * v[3], Scale)
Cross(u, v) == <<FSub(FMul(u[2], v[3]), FMul(u[3], v[2])),
                 FSub(FMul(u[3], v[1]), FMul(u[1], v[3])),
                 FSub(FMul(u[1], v[2]), FMul(u[2], v[1]))>>
Norm(v) == FSqrt(Dot(v, v))
Normalize(v) == VDivS(v, Norm(v))

(***************************************************************************)
(* Configurations (the arguments of DomeProjection.__init__)               *)
(***************************************************************************)
\* n/1000 as a fixed-point number
Milli(n) == RDiv(n * Scale, 1000)
V3(a, b, c) == <<Milli(a), Milli(b), Milli(c)>>

\* largest projector height constructed; the projector is as wide as it is
\* high, or one pixel wider
MaxProjectorPixelHeight == 5

\* the default arguments of __init__, at a reduced resolution
DefaultConfig(pph, ppw) ==
    [screen_height |-> <<Milli(1000), Milli(1000), Milli(1000)>>,
     screen_width |-> <<Milli(1400), Milli(1400), Milli(1400)>>,
     distance_to_screen |-> <<Milli(500), Milli(500), Milli(500)>>,
     pitch |-> <<30, 30, 30>>,
     yaw |-> <<-90, 0, 90>>,
     roll |-> <<0, 0, 0>>,
     image_pixel_height |-> <<2, 3, 2>>,
     image_pixel_width |-> <<3, 4, 3>>,
     projector_pixel_height |-> pph,
     projector_pixel_width |-> ppw,
     first_projector_image |-> <<V3(-80, 436, 137), V3(80, 436, 137),
                                 V3(80, 436, 43), V3(-80, 436, 43)>>,
     second_projector_image |-> <<V3(-115, 265, 186), V3(115, 265, 186),
                                  V3(115, 265, 54), V3(-115, 265, 54)>>,
     mirror_radius |-> Milli(215),
     dome_center |-> V3(0, 138, 309),
     dome_radius |-> Milli(603),
     animal_position |-> V3(0, 60, 610)]

\* a dome that does not enclose the mirror: some reflected rays miss it
SmallDomeConfig(pph, ppw) ==
    [DefaultConfig(pph, ppw) EXCEPT !.dome_radius = Milli(200)]

ProjectorResolutions ==
    {hw \in (1..MaxProjectorPixelHeight) \X (1..(MaxProjectorPixelHeight + 1)) :
        hw[2] \in {hw[1], hw[1] + 1}}

\* a mirror radius passed with the wrong sign
NegativeMirrorConfig(pph, ppw) ==
    [DefaultConfig(pph, ppw) EXCEPT !.mirror_radius = 0 - Milli(215)]
\* a mirror so large that the projector's focal point lies inside it
BigMirrorConfig(pph, ppw) ==
    [DefaultConfig(pph, ppw) EXCEPT !.mirror_radius = Milli(1000)]
\* per-screen lists of different lengths: one distance too few, or one yaw
\* too few
ShortDistanceConfig(pph, ppw) ==
    [DefaultConfig(pph, ppw) EXCEPT !.distance_to_screen = <<Milli(500), Milli(500)>>]
ShortYawConfig(pph, ppw) ==
    [DefaultConfig(pph, ppw) EXCEPT !.yaw = <<-90, 0>>]
ShortWidthConfig(pph, ppw) ==
    [DefaultConfig(pph, ppw) EXCEPT !.screen_width = <<Milli(1400), Milli(1400)>>]
\* the two calibration quads at the same distance from the mirror
SameDistanceConfig(pph, ppw) ==
    [DefaultConfig(pph, ppw) EXCEPT
        !.second_projector_image = <<V3(-115, 436, 186), V3(115, 436, 186),
                                     V3(115, 436, 54), V3(-115, 436, 54)>>]
\* the top edge and the bottom edge of the light cone parallel
ParallelEdgesConfig(pph, ppw) ==
    [DefaultConfig(pph, ppw) EXCEPT
        !.second_projector_image = <<V3(-115, 265, 186), V3(115, 265, 186),
                                     V3(115, 265, 92), V3(-115, 265, 92)>>]

\* the resolutions at which the unusual configurations are constructed
VariantResolutions == {hw \in ProjectorResolutions : hw[1] \in {2, 3}}

Configs ==
    UNION {{DefaultConfig(hw[1], hw[2]), SmallDomeConfig(hw[1], hw[2])} :
           hw \in ProjectorResolutions}
    \cup UNION {{NegativeMirrorConfig(hw[1], hw[2]), BigMirrorConfig(hw[1], hw[2]),
                 ShortDistanceConfig(hw[1], hw[2]), ShortYawConfig(hw[1], hw[2]),
                 ShortWidthConfig(hw[1], hw[2]),
                 SameDistanceConfig(hw[1], hw[2]), ParallelEdgesConfig(hw[1], hw[2])} :
                hw \in VariantResolutions}

(***************************************************************************)
(* Trigonometry of the angles used by the configurations.  The code stores *)
(* angles in radians (i * pi/180); the model keeps the degrees and looks   *)
(* the sine and cosine up.                                                 *)
(***************************************************************************)
sin(deg) == CASE deg = 0 -> 0
              [] deg = 30 -> Half
              [] deg = 90 -> Scale
              [] deg = -90 -> 0 - Scale
cos(deg) == CASE deg = 0 -> Scale
              [] deg = 30 -> Milli(866)
              [] deg = 90 -> 0
              [] deg = -90 -> 0
\* i * pi/180
Radians(deg) == RDiv(deg * Milli(3142), 180)

Screens(cfg) == 0..(Len(cfg.distance_to_screen) - 1)
ProjectorPixels(cfg) ==
    (0..(cfg.projector_pixel_height - 1)) \X (0..(cfg.projector_pixel_width - 1))

(***************************************************************************)
(* __init__: per-screen basis vectors                                      *)
(***************************************************************************)
vector_to_screen(cfg, screen) ==
    LET d == cfg.distance_to_screen[screen + 1]
        yaw == cfg.yaw[screen + 1]
        pitch == cfg.pitch[screen + 1]
    IN <<FMul(FMul(d, sin(yaw)), cos(pitch)),
         FMul(FMul(d, cos(yaw)), cos(pitch)),
         FMul(d, sin(pitch))>>

col_vector(cfg, screen) ==
    LET yaw == cfg.yaw[screen + 1]
        roll == cfg.roll[screen + 1]
    IN Normalize(Cross(vector_to_screen(cfg, screen),
                       <<FMul(sin(roll), cos(yaw)),
                         FMul(sin(roll), sin(yaw)),
                         cos(roll)>>))

row_vector(cfg, screen) ==
    Normalize(Cross(vector_to_screen(cfg, screen), col_vector(cfg, screen)))

(***************************************************************************)
(* flat_display_directions: the unit vector towards pixel (i, j).  Both    *)
(* callers leave phi at its default 0, so sin(phi) = 0 and cos(phi) = 1.   *)
(* A resolution of 1 divides 0.0 by 0, which numpy evaluates to NaN.       *)
(***************************************************************************)
FlatXYZ(px, py, pz) ==
    Normalize(<<px, py, pz>>)

flat_display_directions(sh, sw, pixel_height, pixel_width, dist, voff, i, j) ==
    LET rowfrac == FDiv(FInt(i), FInt(pixel_height - 1))
        colfrac == FDiv(FInt(j), FInt(pixel_width - 1))
    IN FlatXYZ(FMul(sw, FSub(colfrac, Half)),
               FAdd(FMul(dist, cos(0)),
                    FMul(FMul(FSub(rowfrac, Half), sh), sin(0))),
               FAdd(FAdd(FMul(dist, sin(0)),
                         FMul(FMul(FSub(Half, rowfrac), sh), cos(0))),
                    voff))

\* the pixels of the OpenGL image of screen 0
CameraPixels(cfg) ==
    (0..(cfg.image_pixel_height[1] - 1)) \X (0..(cfg.image_pixel_width[1] - 1))

\* self._camera_view_directions as __init__ computes it: screen 0, with the
\* pitch (in radians) passed in the position of vertical_offset
CameraViewDirections(cfg) ==
    [rc \in CameraPixels(cfg) |->
        flat_display_directions(cfg.screen_height[1], cfg.screen_width[1],
                                cfg.image_pixel_height[1], cfg.image_pixel_width[1],
                                cfg.distance_to_screen[1], Radians(cfg.pitch[1]),
                                rc[1], rc[2])]

(***************************************************************************)
(* _calc_projector_focal_point                                             *)
(***************************************************************************)
upperSlope(cfg) ==
    FDiv(FSub(cfg.second_projector_image[1][3], cfg.first_projector_image[1][3]),
         FSub(cfg.second_projector_image[1][2], cfg.first_projector_image[1][2]))
lowerSlope(cfg) ==
    FDiv(FSub(cfg.second_projector_image[3][3], cfg.first_projector_image[3][3]),
         FSub(cfg.second_projector_image[1][2], cfg.first_projector_image[1][2]))
\* determinant of a = [[upperSlope, -1], [lowerSlope, -1]]
FocalDet(cfg) == FSub(lowerSlope(cfg), upperSlope(cfg))
\* linalg.solve(a, b) by Cramer's rule
SolveFocal(us, ls, b0, b1) ==
    <<0, FDiv(FSub(b1, b0), FSub(ls, us)),
         FDiv(FSub(FMul(us, b1), FMul(ls, b0)), FSub(ls, us))>>
_calc_projector_focal_point(cfg) ==
    LET y1 == cfg.first_projector_image[1][2]
        upper_z1 == cfg.first_projector_image[1][3]
        lower_z1 == cfg.first_projector_image[3][3]
    IN SolveFocal(upperSlope(cfg), lowerSlope(cfg),
                  FSub(FMul(upperSlope(cfg), y1), upper_z1),
                  FSub(FMul(lowerSlope(cfg), y1), lower_z1))

(***************************************************************************)
(* _dome_display_directions, for the projector pixel (i, j); p is the      *)
(* projector's focal point                                                 *)
(***************************************************************************)
\* k * a for an integer literal k
FTimes(k, a) == IF IsNaN(a) THEN NaN ELSE k * a

projector_pixel_directions(cfg, p, i, j) ==
    LET top_right_x == cfg.second_projector_image[2][1]
        top_left_x == cfg.second_projector_image[1][1]
        top_left_z == cfg.second_projector_image[1][3]
        bottom_left_z == cfg.second_projector_image[4][3]
        image_height == FSub(top_left_z, bottom_left_z)
        image_width == FSub(top_right_x, top_left_x)
        distance_to_image == FSub(cfg.second_projector_image[1][2], p[2])
        vertical_offset == FAdd(FSub(bottom_left_z, p[3]), FDiv(image_height, FInt(2)))
        fdd == flat_display_directions(image_height, image_width,
                                       cfg.projector_pixel_height,
                                       cfg.projector_pixel_width,
                                       distance_to_image, vertical_offset, i, j)
    IN <<FNeg(fdd[1]), fdd[2], fdd[3]>>

\* b**2 - 4*a*c
Discriminant(a, b, c) == FSub(FMul(b, b), FMul(FTimes(4, a), c))
\* the coefficients of the mirror quadratic
MirrorA(pd) == FAdd(FAdd(FMul(pd[1], pd[1]), FMul(pd[2], pd[2])), FMul(pd[3], pd[3]))
MirrorB(p, pd) == FAdd(FAdd(FMul(FTimes(2, p[1]), pd[1]), FMul(FTimes(2, p[2]), pd[2])),
                       FMul(FTimes(2, p[3]), pd[3]))
MirrorC(cfg, p) == FSub(FAdd(FAdd(FMul(p[1], p[1]), FMul(p[2], p[2])), FMul(p[3], p[3])),
                        FMul(cfg.mirror_radius, cfg.mirror_radius))
d_squared(cfg, p, pd) == Discriminant(MirrorA(pd), MirrorB(p, pd), MirrorC(cfg, p))

\* r = min([(-b + d) / (2*a), (-b - d) / (2*a)])
MirrorRoot(a, b, d) == PyMin2(FDiv(FAdd(FNeg(b), d), FTimes(2, a)),
                              FDiv(FSub(FNeg(b), d), FTimes(2, a)))
\* a variant of DomeRoot that takes the smaller root
DomeRootSmaller(a, b, d) == PyMin2(FDiv(FAdd(FNeg(b), d), FTimes(2, a)),
                                   FDiv(FSub(FNeg(b), d), FTimes(2, a)))
\* r = max([(-b + d) / (2*a), (-b - d) / (2*a)])
DomeRoot(a, b, d) == PyMax2(FDiv(FAdd(FNeg(b), d), FTimes(2, a)),
                            FDiv(FSub(FNeg(b), d), FTimes(2, a)))

\* a variant of MaskOf that sets the mask of every pixel
MaskOfEveryPixel(dsq) == 1
\* projector_mask[i, j]: set to one where d_squared >= 0
MaskOf(dsq) == IF FGe(dsq, 0) THEN 1 ELSE 0

incident_light_vectors(cfg, p, pd) ==
    IF MaskOf(d_squared(cfg, p, pd)) = 1
    THEN VScale(MirrorRoot(MirrorA(pd), MirrorB(p, pd), FSqrt(d_squared(cfg, p, pd))), pd)
    ELSE Zero3

\* reflectedLightDirections[i, j] for a pixel with mask 1; u is the mirror's
\* unit normal
reflectedLightDirections(incident, u) ==
    Normalize(VAdd(VScale(FTimes(-2, Dot(incident, u)), u), incident))

\* the discriminant b**2 - 4*a*c of the dome quadratic along the reflected
\* ray rld leaving the mirror at mrv
DomeDiscriminant(cfg, mrv, rld) ==
    LET rp == VSub(mrv, cfg.dome_center)
    IN Discriminant(MirrorA(rld), MirrorB(rp, rld),
           FSub(FAdd(FAdd(FMul(rp[1], rp[1]), FMul(rp[2], rp[2])), FMul(rp[3], rp[3])),
                FMul(cfg.dome_radius, cfg.dome_radius)))

\* reflected_light_vectors[i, j] for a pixel with mask 1: the square root of
\* a negative discriminant is NaN, and so is the vector
reflected_light_vectors(cfg, mrv, rld) ==
    VScale(DomeRoot(MirrorA(rld), MirrorB(VSub(mrv, cfg.dome_center), rld),
                    FSqrt(DomeDiscriminant(cfg, mrv, rld))),
           rld)

\* animal_view_directions[i, j] for a pixel with mask 1
AnimalViewOf(cfg, rlv, mrv) ==
    Normalize(VSub(VAdd(rlv, mrv), cfg.animal_position))

mirror_radius_vectors(cfg, p, pd) == VAdd(p, incident_light_vectors(cfg, p, pd))
mirrorUnitNormals(cfg, p, pd) ==
    VDivS(mirror_radius_vectors(cfg, p, pd), cfg.mirror_radius)

ReflectAt(cfg, incident, mrv) ==
    AnimalViewOf(cfg,
                 reflected_light_vectors(cfg, mrv,
                     reflectedLightDirections(incident, VDivS(mrv, cfg.mirror_radius))),
                 mrv)

\* the mask and the animal view direction of projector pixel (i, j)
DomePixel(cfg, p, pd) ==
    [mask |-> MaskOf(d_squared(cfg, p, pd)),
     direction |-> IF MaskOf(d_squared(cfg, p, pd)) = 1
                   THEN ReflectAt(cfg, incident_light_vectors(cfg, p, pd),
                                  mirror_radius_vectors(cfg, p, pd))
                   ELSE Zero3]

_dome_display_directions(cfg) ==
    [px \in ProjectorPixels(cfg) |->
        DomePixel(cfg, _calc_projector_focal_point(cfg),
                  projector_pixel_directions(cfg, _calc_projector_focal_point(cfg),
                                             px[1], px[2]))]

(***************************************************************************)
(* _calc_contributing_pixels, for one projector pixel                      *)
(***************************************************************************)
\* Python 2 integer division of non-negative integers
IntDiv(a, b) == a \div b

row_center(cfg, screen) == FInt(IntDiv(cfg.image_pixel_height[screen + 1], 2))
col_center(cfg, screen) == FInt(IntDiv(cfg.image_pixel_width[screen + 1], 2))
row_spacing(cfg, screen) ==
    FDiv(cfg.screen_height[screen + 1], FInt(cfg.image_pixel_height[screen + 1]))
col_spacing(cfg, screen) ==
    FDiv(cfg.screen_width[screen + 1], FInt(cfg.image_pixel_width[screen + 1]))
direction_to_screen(cfg, screen) ==
    VDivS(vector_to_screen(cfg, screen), Norm(vector_to_screen(cfg, screen)))

\* a variant of NearestStep that compares with 0 instead of the best so far
NearestStepAnyPositive(best, i, dp) ==
    IF FGt(dp, 0) THEN [screen |-> i, dp |-> dp] ELSE best
\* the loop "for i in screens": best is [screen, dp], updated when the dot
\* product with screen i is strictly larger
NearestStep(best, i, dp) == IF FGt(dp, best.dp) THEN [screen |-> i, dp |-> dp] ELSE best
RECURSIVE NearestScreenFrom(_, _, _, _)
NearestScreenFrom(cfg, direction, i, best) ==
    IF i >= Len(cfg.distance_to_screen) THEN best
    ELSE Bind(NearestStep(best, i, Dot(direction, direction_to_screen(cfg, i))),
              LAMBDA next : NearestScreenFrom(cfg, direction, i + 1, next))
NearestScreen(cfg, direction) ==
    NearestScreenFrom(cfg, direction, 0, [screen |-> 0, dp |-> 0])

\* a variant of InsideImage that forgets the lower bounds
InsideImageNoLowerBound(cfg, screen, r, c) ==
    /\ FLt(r, FInt(cfg.image_pixel_height[screen + 1]))
    /\ FLt(c, FInt(cfg.image_pixel_width[screen + 1]))

\* make sure the pixel is inside the OpenGL image
InsideImage(cfg, screen, r, c) ==
    /\ FGe(r, 0) /\ FLt(r, FInt(cfg.image_pixel_height[screen + 1]))
    /\ FGe(c, 0) /\ FLt(c, FInt(cfg.image_pixel_width[screen + 1]))

\* a variant of OnScreenEntry that appends the pixel once per coordinate
OnScreenEntryPerCoordinate(cfg, screen, r, c) ==
    IF InsideImage(cfg, screen, r, c) THEN << <<screen, r, c>>, <<screen, r, c>> >> ELSE << >>
OnScreenEntry(cfg, screen, r, c) ==
    IF InsideImage(cfg, screen, r, c) THEN << <<screen, r, c>> >> ELSE << >>

\* the continuous row and column of the point on_screen_vector of the screen
ScreenRow(cfg, screen, on_screen_vector) ==
    FAdd(row_center(cfg, screen),
         FDiv(Dot(on_screen_vector, row_vector(cfg, screen)), row_spacing(cfg, screen)))
ScreenCol(cfg, screen, on_screen_vector) ==
    FAdd(col_center(cfg, screen),
         FDiv(Dot(on_screen_vector, col_vector(cfg, screen)), col_spacing(cfg, screen)))

ProjectOnScreen(cfg, screen, on_screen_vector) ==
    OnScreenEntry(cfg, screen, ScreenRow(cfg, screen, on_screen_vector),
                  ScreenCol(cfg, screen, on_screen_vector))

\* the vector from the centre of the screen to the point where the ray in
\* the given direction crosses its plane; dp is the dot product of the
\* direction with the direction to the screen
OnScreenVector(cfg, screen, direction, dp) ==
    VSub(VScale(FDiv(Norm(vector_to_screen(cfg, screen)), dp), direction),
         vector_to_screen(cfg, screen))

\* the list of a pixel whose nearest screen is best.screen
ContributingFor(cfg, direction, best) ==
    IF FGt(best.dp, 0)
    THEN ProjectOnScreen(cfg, best.screen,
                         OnScreenVector(cfg, best.screen, direction, best.dp))
    ELSE << >>

\* contributing_pixels[row][col], from the pixel's mask and direction
ContributingPixel(cfg, mask, direction) ==
    IF mask = 1 THEN ContributingFor(cfg, direction, NearestScreen(cfg, direction))
    ELSE << >>

_calc_contributing_pixels(cfg, mask, directions) ==
    [px \in ProjectorPixels(cfg) |-> ContributingPixel(cfg, mask[px], directions[px])]

(***************************************************************************)
(* The state of one DomeProjection object and of its caller                *)
(***************************************************************************)
VARIABLES
    pc,                       \* "new", "ready" (constructed) or "failed"
    error,                    \* the exception __init__ raised, or "none"
    cfg,                      \* the arguments of __init__
    DEBUG,                    \* the module-level DEBUG flag
    float_index,              \* what numpy does with a float index
    camera_view_directions,   \* self._camera_view_directions
    projector_mask,           \* self._projector_mask
    animal_view_directions,   \* self._animal_view_directions
    contributing_pixels,      \* self._contributing_pixels
    projector_pixel_row,      \* self._projector_pixel_row
    projector_pixel_col,      \* self._projector_pixel_col
    result,                   \* what the last call returned or raised
    remembered                \* history: the result of the object's first call,
                              \* when that was a warp_image_for_dome call

vars == <<pc, error, cfg, DEBUG, float_index, camera_view_directions, projector_mask,
          animal_view_directions, contributing_pixels, projector_pixel_row,
          projector_pixel_col, result, remembered>>

NoResult == [op |-> "none"]

Init ==
    /\ pc = "new"
    /\ error = "none"
    /\ cfg \in Configs
    /\ DEBUG \in BOOLEAN
    /\ float_index \in {"truncate", "IndexError"}
    /\ camera_view_directions = << >>
    /\ projector_mask = << >>
    /\ animal_view_directions = << >>
    /\ contributing_pixels = << >>
    /\ projector_pixel_row = cfg.projector_pixel_height - 1
    /\ projector_pixel_col = IntDiv(cfg.projector_pixel_width, 2)
    /\ result = NoResult
    /\ remembered = NoResult

(***************************************************************************)
(* __init__                                                                *)
(***************************************************************************)
\* the exception construction raises, or "none"
\* a per-screen list without an entry for every index of distance_to_screen
TooShort(c, list) == Len(list) < Len(c.distance_to_screen)
\* a variant of ConstructionError that misses the DEBUG-only attribute first
ConstructionErrorAttributeFirst(c, debug) ==
    IF ~debug THEN "AttributeError"
    ELSE IF TooShort(c, c.yaw) \/ TooShort(c, c.pitch) \/ TooShort(c, c.roll)
    THEN "IndexError"
    ELSE IF \E list \in {c.screen_height, c.screen_width, c.image_pixel_height,
                          c.image_pixel_width, c.distance_to_screen, c.pitch} :
                list = << >>
    THEN "IndexError"
    ELSE IF c.second_projector_image[1][2] = c.first_projector_image[1][2]
    THEN "ZeroDivisionError"
    ELSE IF FocalDet(c) = 0 THEN "LinAlgError"
    ELSE IF TooShort(c, c.image_pixel_height) \/ TooShort(c, c.screen_height)
            \/ TooShort(c, c.image_pixel_width) \/ TooShort(c, c.screen_width)
    THEN "IndexError"
    ELSE "none"
\* in the order of execution: the loop over range(len(distance_to_screen))
\* indexes yaw, pitch and roll; the first call of flat_display_directions
\* reads entry 0 of five lists; the focal point solver divides by y2 - y1
\* and solves the 2x2 system; _calc_contributing_pixels indexes the sizes
\* of every screen, then reads self._projector_mask
ConstructionError(c, debug) ==
    IF TooShort(c, c.yaw) \/ TooShort(c, c.pitch) \/ TooShort(c, c.roll)
    THEN "IndexError"
    ELSE IF \E list \in {c.screen_height, c.screen_width, c.image_pixel_height,
                          c.image_pixel_width, c.distance_to_screen, c.pitch} :
                list = << >>
    THEN "IndexError"
    ELSE IF c.second_projector_image[1][2] = c.first_projector_image[1][2]
    THEN "ZeroDivisionError"
    ELSE IF FocalDet(c) = 0 THEN "LinAlgError"
    ELSE IF TooShort(c, c.image_pixel_height) \/ TooShort(c, c.screen_height)
            \/ TooShort(c, c.image_pixel_width) \/ TooShort(c, c.screen_width)
    THEN "IndexError"
    ELSE IF ~debug THEN "AttributeError"
    ELSE "none"

MaskField(dome) == [px \in DOMAIN dome |-> dome[px].mask]
DirectionField(dome) == [px \in DOMAIN dome |-> dome[px].direction]

Built(dome) ==
    /\ camera_view_directions' = CameraViewDirections(cfg)
    /\ projector_mask' = MaskField(dome)
    /\ animal_view_directions' = DirectionField(dome)
    /\ contributing_pixels' =
           _calc_contributing_pixels(cfg, MaskField(dome), DirectionField(dome))

Construct ==
    /\ pc = "new"
    /\ error' = ConstructionError(cfg, DEBUG)
    /\ IF ConstructionError(cfg, DEBUG) = "none"
       THEN /\ pc' = "ready"
            /\ Built(_dome_display_directions(cfg))
       ELSE /\ pc' = "failed"
            /\ UNCHANGED <<camera_view_directions, projector_mask,
                           animal_view_directions, contributing_pixels>>
    /\ UNCHANGED <<cfg, DEBUG, float_index, projector_pixel_row,
                   projector_pixel_col, result, remembered>>

(***************************************************************************)
(* warp_image_for_dome                                                     *)
(***************************************************************************)
\* An image is its size (width, height) and its array of RGB pixels,
\* indexed [row, col] as array(image) is.
Image(width, height, Colour(_, _)) ==
    [size |-> <<width, height>>,
     pixels |-> [rc \in (0..(height - 1)) \X (0..(width - 1)) |-> Colour(rc[1], rc[2])]]

Black == <<0, 0, 0>>
Palette == {Black, <<255, 0, 0>>, <<10, 200, 30>>}

ConstantImage(width, height, colour) ==
    LET Colour(row, col) == colour IN Image(width, height, Colour)
\* every pixel of every screen has a colour of its own
GradientImage(width, height, screen) ==
    LET Colour(row, col) == <<10 * row + 1, 10 * col + 2, 10 * screen + 3>>
    IN Image(width, height, Colour)

ConstantImages(c, colour) ==
    [s \in 1..Len(c.image_pixel_width) |->
        ConstantImage(c.image_pixel_width[s], c.image_pixel_height[s], colour)]
GradientImages(c) ==
    [s \in 1..Len(c.image_pixel_width) |->
        GradientImage(c.image_pixel_width[s], c.image_pixel_height[s], s - 1)]
\* the image of screen k (counted from 1) has its width and height swapped
WrongSizeImages(c, k) ==
    [GradientImages(c) EXCEPT ![k] =
        GradientImage(c.image_pixel_height[k], c.image_pixel_width[k], k - 1)]
\* one image fewer, or one more, than there are screens
FewerImages(c) == SubSeq(GradientImages(c), 1, Len(c.image_pixel_width) - 1)
MoreImages(c) == Append(GradientImages(c), ConstantImage(1, 1, Black))

ImageLists(c) ==
    {ConstantImages(c, colour) : colour \in Palette}
    \cup {GradientImages(c), FewerImages(c), MoreImages(c)}
    \cup {WrongSizeImages(c, k) : k \in {1, Len(c.image_pixel_width)}}

\* the loop over enumerate(images): the first index whose check fails
RECURSIVE CheckImagesFrom(_, _, _)
CheckImagesFrom(c, images, i) ==
    IF i > Len(images) THEN "ok"
    ELSE IF i > Len(c.image_pixel_width) \/ i > Len(c.image_pixel_height) THEN "IndexError"
    ELSE IF images[i].size # <<c.image_pixel_width[i], c.image_pixel_height[i]>>
         THEN "AssertionError"
    ELSE CheckImagesFrom(c, images, i + 1)
\* a variant of CheckImages that checks the first image only
CheckFirstImageOnly(c, images) ==
    IF images # << >> /\ images[1].size # <<c.image_pixel_width[1], c.image_pixel_height[1]>>
    THEN "AssertionError" ELSE "ok"
CheckImages(c, images) == CheckImagesFrom(c, images, 1)

\* a variant of IndexOf that rounds to the nearest index
IndexOfRounded(coordinate) == RDiv(coordinate, Scale)
\* a float used as an array index: truncated by the numpy versions that
\* accept it
IndexOf(coordinate) == coordinate \div Scale

\* pixels[pixel[0]][pixel[1], pixel[2]]
SourcePixel(images, pixel) ==
    images[pixel[1] + 1].pixels[<<IndexOf(pixel[2]), IndexOf(pixel[3])>>]

RECURSIVE SumPixelsFrom(_, _, _)
SumPixelsFrom(images, list, k) ==
    IF k > Len(list) THEN <<0, 0, 0>>
    ELSE LET v == SourcePixel(images, list[k])
             rest == SumPixelsFrom(images, list, k + 1)
         IN <<v[1] + rest[1], v[2] + rest[2], v[3] + rest[3]>>
\* a variant of SumPixels whose loop skips the first entry
SumPixelsSkipFirst(images, list) == SumPixelsFrom(images, list, 2)
\* pixel_value after the loop over the pixel's list
SumPixels(images, list) == SumPixelsFrom(images, list, 1)

\* a variant of AverageOf that divides by one too many
AverageOfOffByOne(sum, n) ==
    <<(sum[1] \div (n + 1)) % 256, (sum[2] \div (n + 1)) % 256, (sum[3] \div (n + 1)) % 256>>

\* pixel_value/n, converted to uint8
AverageOf(sum, n) ==
    IF n > 0 THEN <<(sum[1] \div n) % 256, (sum[2] \div n) % 256, (sum[3] \div n) % 256>>
    ELSE <<sum[1] % 256, sum[2] % 256, sum[3] % 256>>

\* a variant of WarpedPixel that fills a pixel without contributors from
\* the first image's corner
WarpedPixelDefaultFill(images, list) ==
    IF list = << >> THEN images[1].pixels[<<0, 0>>]
    ELSE AverageOf(SumPixels(images, list), Len(list))
WarpedPixel(images, list) == AverageOf(SumPixels(images, list), Len(list))

\* does reading the table raise IndexError?  A screen index without an
\* image, a float index that numpy rejects, or an index past the end of the
\* image's array.
EntryRaises(images, pixel, fi) ==
    \/ pixel[1] + 1 > Len(images)
    \/ fi = "IndexError"
    \/ <<IndexOf(pixel[2]), IndexOf(pixel[3])>> \notin DOMAIN images[pixel[1] + 1].pixels
ReadRaises(table, images, fi) ==
    \E px \in DOMAIN table :
        \E k \in 1..Len(table[px]) : EntryRaises(images, table[px][k], fi)

WarpOutcome(c, table, images, fi) ==
    IF CheckImages(c, images) # "ok" THEN CheckImages(c, images)
    ELSE IF ReadRaises(table, images, fi) THEN "IndexError"
    ELSE "ok"

\* a variant of WarpResult that paints the last-found pixel of the search
WarpResultMarkingCursor(c, table, images, fi) ==
    [op |-> "warp",
     images |-> images,
     outcome |-> WarpOutcome(c, table, images, fi),
     out |-> IF WarpOutcome(c, table, images, fi) = "ok"
             THEN [px \in DOMAIN table |->
                      IF px = <<projector_pixel_row, projector_pixel_col>>
                      THEN <<255, 255, 255>>
                      ELSE WarpedPixel(images, table[px])]
             ELSE << >>]

WarpResult(c, table, images, fi) ==
    [op |-> "warp",
     images |-> images,
     outcome |-> WarpOutcome(c, table, images, fi),
     out |-> IF WarpOutcome(c, table, images, fi) = "ok"
             THEN [px \in DOMAIN table |-> WarpedPixel(images, table[px])]
             ELSE << >>]

\* a variant of warp_image_for_dome that consumes the lists it reads
warp_draining_table(images) ==
    /\ pc = "ready"
    /\ result' = WarpResult(cfg, contributing_pixels, images, float_index)
    /\ remembered' = IF result = NoResult THEN result' ELSE remembered
    /\ contributing_pixels' = [px \in DOMAIN contributing_pixels |-> << >>]
    /\ UNCHANGED <<pc, error, cfg, DEBUG, float_index, camera_view_directions,
                   projector_mask, animal_view_directions,
                   projector_pixel_row, projector_pixel_col>>

warp_image_for_dome(images) ==
    /\ pc = "ready"
    /\ result' = WarpResult(cfg, contributing_pixels, images, float_index)
    /\ remembered' = IF result = NoResult THEN result' ELSE remembered
    /\ UNCHANGED <<pc, error, cfg, DEBUG, float_index, camera_view_directions,
                   projector_mask, animal_view_directions, contributing_pixels,
                   projector_pixel_row, projector_pixel_col>>

(***************************************************************************)
(* _find_closest_projector_pixel and _calc_neighbor_dot_products           *)
(***************************************************************************)
\* row_above + beside + row_below
offsets == << <<-1, -1>>, <<-1, 0>>, <<-1, 1>>, <<0, -1>>, <<0, 1>>,
              <<1, -1>>, <<1, 0>>, <<1, 1>> >>

\* a variant of InGrid that takes the last row for the outside
InGridAboveLastRow(c, n) ==
    /\ n[1] >= 0 /\ n[1] < c.projector_pixel_height - 1
    /\ n[2] >= 0 /\ n[2] < c.projector_pixel_width
\* the list "neighbors": the offsets, in order, that stay inside the grid
InGrid(c, n) ==
    /\ n[1] >= 0 /\ n[1] < c.projector_pixel_height
    /\ n[2] >= 0 /\ n[2] < c.projector_pixel_width
Neighbors(c, row, col) ==
    SelectSeq([k \in 1..Len(offsets) |-> <<row + offsets[k][1], col + offsets[k][2]>>],
              LAMBDA n : InGrid(c, n))

\* the list "neighbor_dps", in the order of the neighbours
NeighborDps(directions, neighbors, camera_direction) ==
    [k \in 1..Len(neighbors) |-> Dot(camera_direction, directions[neighbors[k]])]

_calc_neighbor_dot_products(c, directions, row, col, camera_direction) ==
    Bind(Neighbors(c, row, col),
         LAMBDA neighbors : <<NeighborDps(directions, neighbors, camera_direction),
                              neighbors>>)

\* Python's builtin max of a non-empty list
RECURSIVE PyMaxFrom(_, _, _)
PyMaxFrom(list, k, m) ==
    IF k > Len(list) THEN m
    ELSE Bind(PyMax2(m, list[k]), LAMBDA larger : PyMaxFrom(list, k + 1, larger))
PyMax(list) == PyMaxFrom(list, 2, list[1])

\* list.index(v): the first position holding v
IndexOfValue(list, v) ==
    CHOOSE k \in 1..Len(list) : list[k] = v /\ \A j \in 1..(k - 1) : list[j] # v

\* the loop "while max(neighbor_dps) > dp"; nd = [neighbor_dps, neighbors]
RECURSIVE Climb(_, _, _, _, _, _)
ClimbTo(c, directions, camera_direction, rc, dp) ==
    Bind(_calc_neighbor_dot_products(c, directions, rc[1], rc[2], camera_direction),
         LAMBDA nd : Climb(c, directions, camera_direction, rc, dp, nd))
ClimbStep(c, directions, camera_direction, rc, dp, nd, m) ==
    IF FGt(m, dp)
    THEN ClimbTo(c, directions, camera_direction, nd[2][IndexOfValue(nd[1], m)], m)
    ELSE rc
Climb(c, directions, camera_direction, rc, dp, nd) ==
    Bind(PyMax(nd[1]),
         LAMBDA m : ClimbStep(c, directions, camera_direction, rc, dp, nd, m))

\* what a search started at pixel (r, c) returns or raises.  A start pixel
\* with mask 0 enters the restart loop, whose randint call has one argument
\* and raises TypeError.
SearchResult(c, mask, directions, r, c0, camera_direction) ==
    IF mask[<<r, c0>>] = 0
    THEN [op |-> "search", start |-> <<r, c0>>, outcome |-> "TypeError", out |-> << >>]
    ELSE IF Neighbors(c, r, c0) = << >>
    THEN [op |-> "search", start |-> <<r, c0>>, outcome |-> "ValueError", out |-> << >>]
    ELSE [op |-> "search", start |-> <<r, c0>>, outcome |-> "ok",
          out |-> ClimbTo(c, directions, camera_direction, <<r, c0>>,
                          Dot(camera_direction, directions[<<r, c0>>]))]

\* a variant of SavePixel that forgets the column
SavePixelRowOnly(res) ==
    IF res.outcome = "ok"
    THEN /\ projector_pixel_row' = res.out[1]
         /\ UNCHANGED projector_pixel_col
    ELSE UNCHANGED <<projector_pixel_row, projector_pixel_col>>
\* save the projector pixel for the next call
SavePixel(res) ==
    IF res.outcome = "ok"
    THEN /\ projector_pixel_row' = res.out[1]
         /\ projector_pixel_col' = res.out[2]
    ELSE UNCHANGED <<projector_pixel_row, projector_pixel_col>>

_find_closest_projector_pixel(row, col) ==
    /\ pc = "ready"
    /\ result' = SearchResult(cfg, projector_mask, animal_view_directions,
                              projector_pixel_row, projector_pixel_col,
                              camera_view_directions[<<row, col>>])
    /\ SavePixel(result')
    /\ UNCHANGED <<pc, error, cfg, DEBUG, float_index, camera_view_directions,
                   projector_mask, animal_view_directions, contributing_pixels,
                   remembered>>

(***************************************************************************)
(* _find_contributing_pixels: the forward mapper that scans a source image *)
(* in a serpentine pattern.  self._image_pixel_height and                  *)
(* self._image_pixel_width are the per-screen lists __init__ stored.       *)
(* Python 2 orders an int before a list, so "row < self._image_pixel_height"*)
(* is true for every row; range(self._image_pixel_width) then raises       *)
(* TypeError on its list argument, before the first query.                 *)
(***************************************************************************)
\* "row < bound" where bound is a list: true whatever the row
RowBelowList(row, bound) == TRUE
\* range(bound) where bound is a list
RangeOfList(bound) == "TypeError"

\* the queries the scan has made, and how it ended
ScanResult(c) ==
    IF RowBelowList(0, c.image_pixel_height)
    THEN [op |-> "scan", outcome |-> RangeOfList(c.image_pixel_width), queried |-> << >>]
    ELSE [op |-> "scan", outcome |-> "ok", queried |-> << >>]

_find_contributing_pixels ==
    /\ pc = "ready"
    /\ result' = ScanResult(cfg)
    /\ UNCHANGED <<pc, error, cfg, DEBUG, float_index, camera_view_directions,
                   projector_mask, animal_view_directions, contributing_pixels,
                   projector_pixel_row, projector_pixel_col, remembered>>

(***************************************************************************)
(* dome_display_direction(u, v), the query calc_view_directions of         *)
(* parameter_search.py makes for every projector point.  The method is not *)
(* part of dome_projection.py as given; it is modelled from its            *)
(* specification: the animal view direction of the grid cell that holds    *)
(* (u, v), NoViewingDirection when the cell's mask is 0 or (u, v) lies     *)
(* outside the projector's pixels.                                         *)
(***************************************************************************)
\* projector_points: the centroid (row, col) becomes (col + 0.5, row + 0.5)
ProjectorPoint(row, col) == <<FInt(col) + Half, FInt(row) + Half>>
\* the centres of the pixels of the middle column and of the top right
\* corner, and a point beyond each border
ProjectorPoints(c) ==
    {ProjectorPoint(row, IntDiv(c.projector_pixel_width, 2)) :
        row \in 0..(c.projector_pixel_height - 1)}
    \cup {ProjectorPoint(0, c.projector_pixel_width - 1)}
    \cup {ProjectorPoint(-1, 0), ProjectorPoint(0, -1),
          ProjectorPoint(c.projector_pixel_height, 0),
          ProjectorPoint(0, c.projector_pixel_width)}

\* u runs along the columns and v along the rows
CellOf(u, v) == <<v \div Scale, u \div Scale>>
InsideProjector(c, u, v) ==
    /\ 0 <= u /\ u < FInt(c.projector_pixel_width)
    /\ 0 <= v /\ v < FInt(c.projector_pixel_height)

DirectionResult(c, mask, directions, u, v) ==
    IF ~InsideProjector(c, u, v)
    THEN [op |-> "direction", point |-> <<u, v>>,
          outcome |-> "NoViewingDirection", out |-> << >>]
    ELSE IF mask[CellOf(u, v)] = 0
    THEN [op |-> "direction", point |-> <<u, v>>,
          outcome |-> "NoViewingDirection", out |-> << >>]
    ELSE [op |-> "direction", point |-> <<u, v>>,
          outcome |-> "ok", out |-> directions[CellOf(u, v)]]

dome_display_direction(u, v) ==
    /\ pc = "ready"
    /\ result' = DirectionResult(cfg, projector_mask, animal_view_directions, u, v)
    /\ UNCHANGED <<pc, error, cfg, DEBUG, float_index, camera_view_directions,
                   projector_mask, animal_view_directions, contributing_pixels,
                   projector_pixel_row, projector_pixel_col, remembered>>

Next ==
    \/ Construct
    \/ \E images \in ImageLists(cfg) : warp_image_for_dome(images)
    \/ \E rc \in CameraPixels(cfg) : _find_closest_projector_pixel(rc[1], rc[2])
    \/ _find_contributing_pixels
    \/ \E uv \in ProjectorPoints(cfg) : dome_display_direction(uv[1], uv[2])
Spec == Init /\ [][Next]_vars

\* ---------------------------------------------------------------------
\* Properties of the constructed tables and of the warp
\* ---------------------------------------------------------------------
Ready == pc = "ready"
WarpedOk == Ready /\ result.op = "warp" /\ result.outcome = "ok"
InitialCursor ==
    <<cfg.projector_pixel_height - 1, IntDiv(cfg.projector_pixel_width, 2)>>
Cursor == <<projector_pixel_row, projector_pixel_col>>
\* the dot products of a viewing direction with every screen's direction
ScreenDps(direction) ==
    [i \in Screens(cfg) |-> Dot(direction, direction_to_screen(cfg, i))]
\* where a viewing direction lands on its nearest screen
Landing(direction) ==
    LET best == NearestScreen(cfg, direction)
        on_screen_vector == OnScreenVector(cfg, best.screen, direction, best.dp)
    IN <<ScreenRow(cfg, best.screen, on_screen_vector),
         ScreenCol(cfg, best.screen, on_screen_vector)>>

\* C1: a projector pixel whose mask is false has an empty contributing
\* list, and every successful warp leaves it black.
C1_MaskedPixelIsBlack ==
    Ready =>
        \A px \in DOMAIN projector_mask :
            projector_mask[px] = 0 =>
                /\ contributing_pixels[px] = << >>
                /\ WarpedOk => result.out[px] = Black
\* a successful warp of coloured images over a grid that has a masked
\* pixel and a pixel that received colour
C1_Witness ==
    /\ WarpedOk
    /\ result.images = GradientImages(cfg)
    /\ \E px \in DOMAIN projector_mask : projector_mask[px] = 0
    /\ \E px \in DOMAIN projector_mask : result.out[px] # Black

\* the dome discriminant of the ray reflected for projector pixel px
DomeDiscriminantAt(c, px) ==
    LET p == _calc_projector_focal_point(c)
        pd == projector_pixel_directions(c, p, px[1], px[2])
        mrv == mirror_radius_vectors(c, p, pd)
        rld == reflectedLightDirections(incident_light_vectors(c, p, pd),
                                        mirrorUnitNormals(c, p, pd))
    IN DomeDiscriminant(c, mrv, rld)
MirrorDiscriminantAt(c, px) ==
    LET p == _calc_projector_focal_point(c)
    IN d_squared(c, p, projector_pixel_directions(c, p, px[1], px[2]))

\* C2: the mask is true only for pixels whose ray strikes the mirror and
\* whose reflected ray strikes the dome; a negative dome discriminant
\* makes the pixel invalid, and no direction is left undefined.
C2_DomeMissIsInvalid ==
    Ready =>
        \A px \in DOMAIN projector_mask :
            /\ projector_mask[px] = 1 =>
                   /\ FGe(MirrorDiscriminantAt(cfg, px), 0)
                   /\ FGe(DomeDiscriminantAt(cfg, px), 0)
            /\ ~HasNaN(animal_view_directions[px])

\* C3: every entry of the table names a screen and a row and column
\* inside that screen's image; a projection that lands outside the image
\* is not appended.
C3_EntriesInsideImage ==
    Ready =>
        \A px \in DOMAIN contributing_pixels :
            /\ \A k \in DOMAIN contributing_pixels[px] :
                   LET e == contributing_pixels[px][k]
                   IN /\ e[1] \in Screens(cfg)
                      /\ ~IsNaN(e[2]) /\ ~IsNaN(e[3])
                      /\ 0 <= e[2] /\ e[2] < FInt(cfg.image_pixel_height[e[1] + 1])
                      /\ 0 <= e[3] /\ e[3] < FInt(cfg.image_pixel_width[e[1] + 1])
            /\ (projector_mask[px] = 1 /\ ~HasNaN(animal_view_directions[px])) =>
                   LET best == NearestScreen(cfg, animal_view_directions[px])
                       rc == Landing(animal_view_directions[px])
                   IN (/\ best.dp > 0
                       /\ \/ rc[1] < 0 \/ rc[1] >= FInt(cfg.image_pixel_height[best.screen + 1])
                          \/ rc[2] < 0 \/ rc[2] >= FInt(cfg.image_pixel_width[best.screen + 1]))
                      => contributing_pixels[px] = << >>
\* a table with an entry, and a valid pixel facing a screen whose
\* projection has a negative coordinate and was dropped
C3_Witness ==
    /\ Ready
    /\ \E px \in DOMAIN contributing_pixels : contributing_pixels[px] # << >>
    /\ \E px \in DOMAIN contributing_pixels :
           /\ projector_mask[px] = 1
           /\ ~HasNaN(animal_view_directions[px])
           /\ NearestScreen(cfg, animal_view_directions[px]).dp > 0
           /\ \/ Landing(animal_view_directions[px])[1] < 0
              \/ Landing(animal_view_directions[px])[2] < 0
           /\ contributing_pixels[px] = << >>

\* C4: for a valid pixel the screen with the maximum dot product is the
\* one selected; when no dot product is positive the list stays empty.
C4_NearestScreenSelected ==
    Ready =>
        \A px \in DOMAIN contributing_pixels :
            (projector_mask[px] = 1 /\ ~HasNaN(animal_view_directions[px])) =>
                LET dps == ScreenDps(animal_view_directions[px])
                    best == NearestScreen(cfg, animal_view_directions[px])
                IN IF \E i \in Screens(cfg) : dps[i] > 0
                   THEN /\ dps[best.screen] = best.dp
                        /\ \A i \in Screens(cfg) : dps[i] <= best.dp
                        /\ \A k \in DOMAIN contributing_pixels[px] :
                               contributing_pixels[px][k][1] = best.screen
                   ELSE contributing_pixels[px] = << >>
\* a table with a valid pixel facing no screen, and an entry on a later
\* screen although an earlier screen also has a positive dot product
C4_Witness ==
    /\ Ready
    /\ \E px \in DOMAIN contributing_pixels :
           /\ projector_mask[px] = 1
           /\ ~HasNaN(animal_view_directions[px])
           /\ \A i \in Screens(cfg) : ScreenDps(animal_view_directions[px])[i] <= 0
    /\ \E px \in DOMAIN contributing_pixels :
           /\ contributing_pixels[px] # << >>
           /\ \E i \in Screens(cfg) :
                  /\ i < contributing_pixels[px][1][1]
                  /\ ScreenDps(animal_view_directions[px])[i] > 0

\* the colour of the source pixel an entry names, the fractional part of
\* its row and column dropped
Sampled(images, e) == images[e[1] + 1].pixels[<<e[2] \div Scale, e[3] \div Scale>>]
\* the sum of one colour channel over the entries of a list
ChannelSum(images, list, ch) ==
    LET S[k \in 0..Len(list)] ==
            IF k = 0 THEN 0 ELSE S[k - 1] + Sampled(images, list[k])[ch]
    IN S[Len(list)]
ExpectedPixel(images, list) ==
    IF list = << >> THEN Black
    ELSE [ch \in 1..3 |-> ChannelSum(images, list, ch) \div Len(list)]

\* C5: every output pixel of a warp is the unweighted average of the
\* source pixels its contributing list names, and black when the list is
\* empty.
C5_OutputIsAverage ==
    WarpedOk =>
        \A px \in DOMAIN contributing_pixels :
            result.out[px] = ExpectedPixel(result.images, contributing_pixels[px])
\* a warp of images whose pixels all differ, over a table with entries on
\* two screens, that produced two different colours
C5_Witness ==
    /\ WarpedOk
    /\ result.images = GradientImages(cfg)
    /\ \E px, qx \in DOMAIN contributing_pixels :
           /\ contributing_pixels[px] # << >>
           /\ contributing_pixels[qx] # << >>
           /\ contributing_pixels[px][1][1] # contributing_pixels[qx][1][1]
           /\ result.out[px] # Black
           /\ result.out[qx] # result.out[px]

\* C6: when every screen image has the one colour C, every output pixel
\* with a non-empty contributing list is C and every other pixel is black.
C6_ConstantColourPreserved ==
    WarpedOk =>
        \A colour \in Palette :
            result.images = ConstantImages(cfg, colour) =>
                \A px \in DOMAIN contributing_pixels :
                    result.out[px] =
                        IF contributing_pixels[px] # << >> THEN colour ELSE Black
\* a warp of images of one colour that is not black, over a table with an
\* entry and with a masked pixel
C6_Witness ==
    /\ WarpedOk
    /\ result.images = ConstantImages(cfg, <<10, 200, 30>>)
    /\ \E px \in DOMAIN contributing_pixels : contributing_pixels[px] # << >>
    /\ \E px \in DOMAIN contributing_pixels : projector_mask[px] = 0

\* an image whose size differs from the resolution of the screen at the
\* same index
Mismatched(images) ==
    \E i \in DOMAIN images :
        /\ i \in DOMAIN cfg.image_pixel_width
        /\ images[i].size # <<cfg.image_pixel_width[i], cfg.image_pixel_height[i]>>

\* C7: a warp given an image whose (width, height) differs from the
\* resolution of the screen at the same index fails with the size check's
\* error, and no output is produced.
C7_MismatchFailsBeforeOutput ==
    (Ready /\ result.op = "warp" /\ Mismatched(result.images)) =>
        /\ result.outcome = "AssertionError"
        /\ result.out = << >>
\* a failed warp whose first image was right and whose last was not
C7_Witness ==
    /\ Ready /\ result.op = "warp"
    /\ result.images = WrongSizeImages(cfg, Len(cfg.image_pixel_width))
    /\ result.outcome = "AssertionError"

\* C8 as stated: every stored coordinate is resolved by rounding to the
\* nearest pixel, and the rounded row and column lie inside the image.
C8_RoundedIndexInside ==
    Ready =>
        \A px \in DOMAIN contributing_pixels :
            \A k \in DOMAIN contributing_pixels[px] :
                LET e == contributing_pixels[px][k]
                IN /\ RDiv(e[2], Scale) \in 0..(cfg.image_pixel_height[e[1] + 1] - 1)
                   /\ RDiv(e[3], Scale) \in 0..(cfg.image_pixel_width[e[1] + 1] - 1)

\* C8 amended: the stored coordinates are used as indices without
\* rounding.  Their integer parts lie inside the image; a warp of images of
\* the right sizes reads exactly the pixels at the integer parts when float
\* indices are accepted, and fails with IndexError on a non-empty table when
\* they are not.
C8_TruncatedIndexInside ==
    Ready =>
        /\ \A px \in DOMAIN contributing_pixels :
               \A k \in DOMAIN contributing_pixels[px] :
                   LET e == contributing_pixels[px][k]
                   IN /\ (e[2] \div Scale) \in 0..(cfg.image_pixel_height[e[1] + 1] - 1)
                      /\ (e[3] \div Scale) \in 0..(cfg.image_pixel_width[e[1] + 1] - 1)
        /\ (result.op = "warp" /\ result.images = GradientImages(cfg)) =>
               IF float_index = "truncate"
               THEN /\ result.outcome = "ok"
                    /\ \A px \in DOMAIN contributing_pixels :
                           Len(contributing_pixels[px]) = 1 =>
                               result.out[px] =
                                   Sampled(result.images, contributing_pixels[px][1])
               ELSE result.outcome = "ok" <=>
                        \A px \in DOMAIN contributing_pixels :
                            contributing_pixels[px] = << >>
\* a successful warp over a table with a coordinate whose nearest index
\* is not its integer part
C8_Witness ==
    /\ WarpedOk
    /\ result.images = GradientImages(cfg)
    /\ \E px \in DOMAIN contributing_pixels :
           /\ contributing_pixels[px] # << >>
           /\ RDiv(contributing_pixels[px][1][2], Scale)
                  # contributing_pixels[px][1][2] \div Scale
           /\ result.out[px] # Black

\* C9: once constructed, no step changes the direction fields, the mask
\* or the table; the last-found pixel changes only in a search that
\* returns, to the pixel it returns; a warp changes none of them.
C9_Frame ==
    [][Ready =>
          /\ UNCHANGED <<cfg, camera_view_directions, animal_view_directions,
                         projector_mask, contributing_pixels>>
          /\ Cursor' # Cursor =>
                 /\ result'.op = "search"
                 /\ result'.outcome = "ok"
                 /\ Cursor' = result'.out
          /\ (result' # result /\ result'.op = "warp") => Cursor' = Cursor]_vars
\* an object that has warped and whose search has moved the last-found
\* pixel
C9_Witness ==
    /\ Ready
    /\ remembered # NoResult /\ remembered.op = "warp"
    /\ result.op = "search" /\ result.outcome = "ok"
    /\ Cursor # InitialCursor
    /\ \E px \in DOMAIN contributing_pixels : contributing_pixels[px] # << >>

\* C10: a warp given the images of the object's first warp returns what
\* the first warp returned, whatever warps and searches came in between.
C10_SameImagesSameOutput ==
    (Ready /\ result.op = "warp" /\ remembered # NoResult
         /\ remembered.op = "warp" /\ remembered.images = result.images) =>
        result = remembered
\* a successful warp that repeats the images of the first one after a
\* search has moved the last-found pixel
C10_Witness ==
    /\ WarpedOk
    /\ remembered # NoResult /\ remembered.op = "warp"
    /\ remembered.images = result.images
    /\ Cursor # InitialCursor
    /\ \E px \in DOMAIN contributing_pixels : result.out[px] # Black

\* ---------------------------------------------------------------------
\* Properties of the nearest-pixel search
\* ---------------------------------------------------------------------
\* what a search for the direction of camera pixel q does when the
\* last-found pixel is rc
SearchFrom(rc, q) ==
    SearchResult(cfg, projector_mask, animal_view_directions, rc[1], rc[2],
                 camera_view_directions[q])
\* the dot product of the direction of camera pixel q with the animal view
\* direction of projector pixel px
QueryDp(q, px) == Dot(camera_view_directions[q], animal_view_directions[px])
\* the pixels of the grid next to px
GridNeighbours(px) ==
    {n \in ProjectorPixels(cfg) :
        /\ n # px
        /\ n[1] - px[1] \in {-1, 0, 1}
        /\ n[2] - px[2] \in {-1, 0, 1}}
LocalMaximum(q, px) ==
    \A n \in GridNeighbours(px) : FGe(QueryDp(q, px), QueryDp(q, n))

\* C11: the pixel a search returns is a local maximum: the dot product of
\* the query with its direction is at least the dot product with the
\* direction of each of its neighbours in the grid.
C11_ReturnsLocalMaximum ==
    Ready =>
        \A q \in CameraPixels(cfg) :
            SearchFrom(Cursor, q).outcome = "ok" =>
                LocalMaximum(q, SearchFrom(Cursor, q).out)

\* C12: the last-found pixel is at first the middle of the projector's
\* bottom row, a pixel of the grid; every search starts from it, and a
\* search that returns leaves in it exactly the pixel it returned.
C12_LastFoundPixel ==
    [][/\ pc = "new" => (Cursor = InitialCursor /\ Cursor \in ProjectorPixels(cfg))
       /\ (Ready /\ result'.op = "search" /\ <<result, Cursor>>' # <<result, Cursor>>) =>
              /\ result'.start = Cursor
              /\ result'.outcome = "ok" => Cursor' = result'.out
              /\ Cursor' \in ProjectorPixels(cfg)]_vars
\* a search that returned after starting from a pixel an earlier search
\* had left
C12_Witness ==
    /\ Ready
    /\ result.op = "search" /\ result.outcome = "ok"
    /\ result.start # InitialCursor
    /\ result.out # result.start
    /\ Cursor = result.out

\* C13: a search whose starting pixel has mask 0 restarts from random
\* pixels of the grid without raising, and climbs from a pixel with mask 1.
C13_RestartFindsValidPixel ==
    (/\ Ready /\ result.op = "search"
     /\ projector_mask[result.start] = 0
     /\ \E px \in ProjectorPixels(cfg) : projector_mask[px] = 1) =>
        /\ result.outcome = "ok"
        /\ projector_mask[result.out] = 1

\* C14: searches of another session do not change what a session's query
\* returns: a search for q2 made after another session's search for q1
\* gives what it gives without that search.
C14_SessionsDoNotInterfere ==
    Ready =>
        \A q1, q2 \in CameraPixels(cfg) :
            SearchFrom(Cursor, q1).outcome = "ok" =>
                SearchFrom(SearchFrom(Cursor, q1).out, q2).out
                    = SearchFrom(Cursor, q2).out

\* ---------------------------------------------------------------------
\* Properties of construction
\* ---------------------------------------------------------------------
PerScreenLists ==
    {cfg.screen_height, cfg.screen_width, cfg.distance_to_screen, cfg.pitch,
     cfg.yaw, cfg.roll, cfg.image_pixel_height, cfg.image_pixel_width}
Constructed == pc # "new"
NothingBuilt ==
    /\ animal_view_directions = << >>
    /\ projector_mask = << >>
    /\ contributing_pixels = << >>

\* C15: construction given per-screen lists that do not all have the same
\* length fails; it never completes on a prefix of the longer lists.
C15_UnequalListsRejected ==
    (Constructed /\ \E l1, l2 \in PerScreenLists : Len(l1) # Len(l2)) =>
        /\ pc = "failed"
        /\ NothingBuilt

\* C16: construction with a mirror radius or a dome radius that is zero or
\* negative fails and produces no direction field, mask or table.
C16_NonPositiveRadiusRejected ==
    (Constructed /\ (cfg.mirror_radius <= 0 \/ cfg.dome_radius <= 0)) =>
        /\ pc = "failed"
        /\ NothingBuilt

\* the two calibration quads at the same distance, or the top and bottom
\* edges of the light cone parallel
SameDistance ==
    cfg.second_projector_image[1][2] = cfg.first_projector_image[1][2]
ParallelEdges ==
    cfg.second_projector_image[1][3] - cfg.first_projector_image[1][3]
        = cfg.second_projector_image[3][3] - cfg.first_projector_image[3][3]
EveryScreenListed ==
    \A l1, l2 \in PerScreenLists : Len(l1) = Len(l2)

CentredGrid(c) ==
    [c EXCEPT !.projector_pixel_height = IF @ = 1 THEN 3 ELSE @,
              !.projector_pixel_width = IF @ = 1 THEN 3 ELSE @]
CentredIndex(n, i) == IF n = 1 THEN 1 ELSE i
PixelDirection(c, px) ==
    projector_pixel_directions(c, _calc_projector_focal_point(c), px[1], px[2])

\* C18: flat_display_directions does not divide by zero for a resolution
\* of 1: the single row or column lies at the centre of the display.
C18_SinglePixelAtCentre ==
    Ready =>
        \A px \in ProjectorPixels(cfg) :
            /\ ~HasNaN(PixelDirection(cfg, px))
            /\ PixelDirection(cfg, px) =
                   PixelDirection(CentredGrid(cfg),
                                  <<CentredIndex(cfg.projector_pixel_height, px[1]),
                                    CentredIndex(cfg.projector_pixel_width, px[2])>>)

\* the two roots of the mirror quadratic of projector pixel px
MirrorRootsAt(c, px) ==
    LET p == _calc_projector_focal_point(c)
        pd == PixelDirection(c, px)
        a == MirrorA(pd)
        b == MirrorB(p, pd)
        d == FSqrt(d_squared(c, p, pd))
    IN <<FDiv(FAdd(FNeg(b), d), FTimes(2, a)), FDiv(FSub(FNeg(b), d), FTimes(2, a)),
         MirrorRoot(a, b, d)>>

\* C19: for every valid pixel the ray parameter chosen for the mirror is
\* positive and is the smaller of two positive roots.
C19_MirrorRootPositive ==
    Ready =>
        \A px \in ProjectorPixels(cfg) :
            projector_mask[px] = 1 =>
                /\ MirrorRootsAt(cfg, px)[1] > 0
                /\ MirrorRootsAt(cfg, px)[2] > 0
                /\ MirrorRootsAt(cfg, px)[3] > 0
                /\ MirrorRootsAt(cfg, px)[3] <= MirrorRootsAt(cfg, px)[1]
                /\ MirrorRootsAt(cfg, px)[3] <= MirrorRootsAt(cfg, px)[2]

\* unit norm, within the tolerance of the arithmetic
NormTolerance == Scale \div 32
UnitNorm(v) == ~HasNaN(v) /\ Abs(Norm(v) - Scale) <= NormTolerance

\* C20: every entry of the animal view direction field has unit norm, the
\* entries of pixels with mask 0 included.
C20_EveryDirectionUnit ==
    Ready =>
        \A px \in ProjectorPixels(cfg) : UnitNorm(animal_view_directions[px])

C23_AtMostOneContributor ==
    Ready =>
        \A px \in DOMAIN contributing_pixels : Len(contributing_pixels[px]) \in {0, 1}
\* a table with a list of length 1, and an empty list at a valid pixel
C23_Witness ==
    /\ Ready
    /\ \E px \in DOMAIN contributing_pixels : Len(contributing_pixels[px]) = 1
    /\ \E px \in DOMAIN contributing_pixels :
           projector_mask[px] = 1 /\ contributing_pixels[px] = << >>

\* a configuration with a screen in every list, more than one projector
\* row and column, a mirror of positive radius inside the dome, and a
\* calibration that determines the focal point
WellFormed ==
    /\ EveryScreenListed
    /\ cfg.projector_pixel_height > 1 /\ cfg.projector_pixel_width > 1
    /\ cfg.mirror_radius > 0
    /\ Norm(cfg.dome_center) + cfg.mirror_radius < cfg.dome_radius
    /\ ~SameDistance /\ ~ParallelEdges

\* C24: every search on a grid with a valid pixel comes to an end with a
\* pixel: the restart reaches a valid pixel and the climb stops after
\* finitely many moves.
C24_SearchReturnsPixel ==
    (/\ Ready /\ WellFormed /\ result.op = "search"
     /\ \E px \in ProjectorPixels(cfg) : projector_mask[px] = 1) =>
        /\ result.outcome = "ok"
        /\ result.out \in ProjectorPixels(cfg)

\* C27: the pixel a search returns and stores as the last-found pixel has
\* mask 1: the climb never ends on a pixel whose ray misses the mirror.
C27_ReturnedPixelIsValid ==
    (Ready /\ WellFormed /\ result.op = "search" /\ result.outcome = "ok") =>
        /\ projector_mask[result.out] = 1
        /\ projector_mask[Cursor] = 1

\* what _calc_neighbor_dot_products returns for projector pixel px and the
\* direction of camera pixel q
NeighborDotProducts(px, q) ==
    _calc_neighbor_dot_products(cfg, animal_view_directions, px[1], px[2],
                                camera_view_directions[q])
Interior(px) ==
    /\ 0 < px[1] /\ px[1] < cfg.projector_pixel_height - 1
    /\ 0 < px[2] /\ px[2] < cfg.projector_pixel_width - 1

\* what the claim says of the lists returned for pixel px and camera pixel q
NeighboursListed(px, q) ==
    LET dps == NeighborDotProducts(px, q)[1]
        neighbors == NeighborDotProducts(px, q)[2]
    IN /\ {neighbors[k] : k \in DOMAIN neighbors} = GridNeighbours(px)
       /\ Len(neighbors) = Cardinality(GridNeighbours(px))
       /\ Len(neighbors) <= 8
       /\ Interior(px) <=> Len(neighbors) = 8
       /\ Len(dps) = Len(neighbors)
       /\ \A k \in DOMAIN neighbors : dps[k] = QueryDp(q, neighbors[k])

\* C25: for every pixel of the grid _calc_neighbor_dot_products lists, once
\* each, exactly the grid pixels at most one row and one column away, the
\* pixel itself left out: eight for an interior pixel, fewer on an edge.
\* The dot products come in the same number and the same order.  The
\* fields do not change once built, so every pixel is examined in the state
\* construction leaves, and the last-found pixel, where the next search
\* calls the function, in every state.
C25_NeighboursAndDotProducts ==
    Ready =>
        /\ \A q \in CameraPixels(cfg) : NeighboursListed(Cursor, q)
        /\ result = NoResult =>
               \A px \in ProjectorPixels(cfg) :
                   \A q \in CameraPixels(cfg) : NeighboursListed(px, q)
\* a search that climbed to an interior pixel, past neighbours with
\* different dot products
C25_Witness ==
    /\ Ready /\ result.op = "search" /\ result.outcome = "ok"
    /\ result.out # result.start
    /\ Interior(result.out) /\ Cursor = result.out
    /\ \E px \in ProjectorPixels(cfg) : ~Interior(px) /\ projector_mask[px] = 1

\* the mirror point and the reflected direction of projector pixel px
MirrorPointAt(c, px) ==
    mirror_radius_vectors(c, _calc_projector_focal_point(c), PixelDirection(c, px))
ReflectedDirectionAt(c, px) ==
    LET p == _calc_projector_focal_point(c)
        pd == PixelDirection(c, px)
    IN reflectedLightDirections(incident_light_vectors(c, p, pd),
                                mirrorUnitNormals(c, p, pd))
\* the two roots of the dome quadratic of projector pixel px, and the one
\* the code takes
DomeRootsAt(c, px) ==
    LET mrv == MirrorPointAt(c, px)
        rld == ReflectedDirectionAt(c, px)
        a == MirrorA(rld)
        b == MirrorB(VSub(mrv, c.dome_center), rld)
        d == FSqrt(DomeDiscriminant(c, mrv, rld))
    IN <<FDiv(FAdd(FNeg(b), d), FTimes(2, a)), FDiv(FSub(FNeg(b), d), FTimes(2, a)),
         DomeRoot(a, b, d)>>
\* the mirror point lies inside the dome
InsideDome(c, px) ==
    LET rp == VSub(MirrorPointAt(c, px), c.dome_center)
    IN FLt(Dot(rp, rp), FMul(c.dome_radius, c.dome_radius))
ForwardRoot(c, px, roots) ==
    /\ FGe(DomeDiscriminantAt(c, px), 0) =>
           /\ roots[3] \in {roots[1], roots[2]}
           /\ roots[3] >= roots[1] /\ roots[3] >= roots[2]
    /\ InsideDome(c, px) =>
           /\ FGe(DomeDiscriminantAt(c, px), 0)
           /\ roots[3] >= 0

\* C26: for every pixel with mask 1 whose reflected ray meets the dome,
\* the construction takes the larger of the two roots of the dome
\* quadratic and stores the direction of that point; when the mirror point
\* lies inside the dome the two roots exist and the one taken is not
\* negative.
C26_LargerDomeRoot ==
    [][(pc = "new" /\ pc' = "ready") =>
          \A px \in ProjectorPixels(cfg) :
              projector_mask'[px] = 1 =>
                  /\ ForwardRoot(cfg, px, DomeRootsAt(cfg, px))
                  /\ animal_view_directions'[px] =
                         AnimalViewOf(cfg, VScale(DomeRootsAt(cfg, px)[3],
                                                  ReflectedDirectionAt(cfg, px)),
                                      MirrorPointAt(cfg, px))]_vars
\* a constructed grid with a valid pixel whose mirror point lies inside the
\* dome and whose smaller root is negative
C26_Witness ==
    /\ Ready
    /\ \E px \in ProjectorPixels(cfg) :
           /\ projector_mask[px] = 1
           /\ InsideDome(cfg, px)
           /\ DomeRootsAt(cfg, px)[2] < 0
           /\ DomeRootsAt(cfg, px)[3] > 0
           /\ ~HasNaN(animal_view_directions[px])

\* C28: the serpentine scan of _find_contributing_pixels queries every
\* pixel of the source image exactly once, and no row past the last one.
C28_ScanQueriesEveryPixelOnce ==
    (Ready /\ WellFormed /\ result.op = "scan") =>
        /\ result.outcome = "ok"
        /\ \A rc \in CameraPixels(cfg) :
               Cardinality({k \in DOMAIN result.queried : result.queried[k] = rc}) = 1
        /\ \A k \in DOMAIN result.queried :
               result.queried[k][1] < cfg.image_pixel_height[1]

\* C29: whatever the DEBUG flag, construction of a well-formed
\* configuration completes, and the mask kept for the mapper and the search
\* is the one the reflection step computed.
C29_MaskAvailableInEveryBuild ==
    (Constructed /\ WellFormed) =>
        /\ pc = "ready"
        /\ DOMAIN projector_mask = ProjectorPixels(cfg)
        /\ \A px \in ProjectorPixels(cfg) :
               projector_mask[px] = MaskOf(MirrorDiscriminantAt(cfg, px))

\* C30: a warp given a list of images whose length is not the number of
\* screens is rejected by the checks made on the images, before any output
\* pixel is computed.
C30_WrongImageCountRejected ==
    (/\ Ready /\ WellFormed /\ result.op = "warp"
     /\ Len(result.images) # Len(cfg.distance_to_screen)) =>
        /\ CheckImages(cfg, result.images) # "ok"
        /\ result.outcome # "ok"
        /\ result.out = << >>
====
